---- MODULE Spec2Model ----
(***************************************************************************)
(* Model of the cardano-hack repository: the Blockfrost client             *)
(* (CardanoService.fetchApi), the pool ingestion pipeline                  *)
(* (processBatch / getAllStakePools), the file cache read endpoint         *)
(* (GET /api/pools) and the live block poller of StakePoolBubbleChart.     *)
(***************************************************************************)
EXTENDS Integers, Sequences, FiniteSets, TLC

VARIABLES
    call,               \* the fetchApi invocation under study (client component)
    callLog,            \* history: the responses the upstream gave to `call`
    callSleeps,         \* history: the durations of the sleeps of `call`
    callsMade,          \* number of fetchApi invocations started so far
    batchSize,          \* CardanoService.batchSize
    pc,                 \* position of getAllStakePools
    page,               \* getAllStakePools: page
    allPoolIds,         \* getAllStakePools: allPoolIds
    allPools,           \* getAllStakePools: allPools
    i,                  \* getAllStakePools: index of the batch loop
    pageCall,           \* the fetchApi call of the discovery loop
    detail,             \* position -> fetchApi call for /pools/{id}
    meta,               \* position -> fetchApi call for /pools/{id}/metadata
    batches,            \* history: start indices of the processBatch calls
    issued,             \* history: position -> number of detail calls started
    delays,             \* history: number of inter-batch sleeps started
    progress,           \* history: arguments of the onProgress calls
    source,             \* history: position each record of allPools comes from
    detailOutcome,      \* history: position -> how its detail call ended
    metaOutcome,        \* history: position -> how its metadata call ended
    sawFailure,         \* history: the upstream gave a failure other than 429
    pageRequests,       \* history: page numbers of the discovery calls started
    pageLog,            \* history: the lists the discovery calls returned
    phase,              \* StakePoolBubbleChart: created, mounted or unmounted
    pools,              \* StakePoolBubbleChart: the pools prop
    currentSlotLeader,  \* StakePoolBubbleChart: state currentSlotLeader
    blockHistory,       \* StakePoolBubbleChart: state blockHistory
    lastBlockRef,       \* StakePoolBubbleChart: lastBlockRef.current
    inflight,           \* pools of a closure -> its fetchLatestBlock calls in flight
    lastObs,            \* history: the last block received with an OK response
    nObs,               \* history: number of blocks received with an OK response
    arrivals,           \* history: the entries put into the block history, in order
    lastPoll,           \* history: how the last fetchLatestBlock call answered ended
    poolsFile,          \* cache/stake-pools.json
    timestampFile,      \* cache/last-update.txt
    jobPc,              \* position of the cache update job
    jobRun,             \* number of the cache update run
    jobResult,          \* the pool list the current or last run writes
    jobLog,             \* history: exit code and ingestion result of each finished run
    getPc,              \* position of the GET /api/pools handler
    getData,            \* GET /api/pools: poolsData
    getOverlap,         \* history: a write happened during the current GET
    response,           \* the last response of GET /api/pools
    served,             \* history: number of responses of GET /api/pools
    poolData,           \* StakePoolBubbleChart: poolData of the last layout
    rendered            \* the drawing effect has run for the current pools

clientVars == <<call, callLog, callSleeps, callsMade>>
ingestVars == <<batchSize, pc, page, allPoolIds, allPools, i, pageCall, detail,
                meta, batches, issued, delays, progress, source, detailOutcome,
                metaOutcome, sawFailure, pageRequests, pageLog>>
pollerVars == <<phase, pools, currentSlotLeader, blockHistory, lastBlockRef,
                inflight, lastObs, nObs, arrivals, lastPoll>>
cacheVars == <<poolsFile, timestampFile, jobPc, jobRun, jobResult, jobLog, getPc, getData,
               getOverlap, response, served>>
renderVars == <<poolData, rendered>>
vars == <<clientVars, ingestVars, pollerVars, cacheVars, renderVars>>

----------------------------------------------------------------------------
(* Bounds of the model *)

MaxCalls == 2           \* fetchApi invocations made one after the other
MaxIds == 3             \* pool identifiers the upstream lists in one run
MaxPageLen == 2         \* identifiers on one page of /pools
MaxBatchSize == 2       \* values of batchSize that are explored
MaxInFlight == 2        \* fetchLatestBlock calls in flight at one time
MaxBlocks == 4          \* blocks one chart receives with an OK response
MaxRuns == 3            \* runs of the cache update job
MaxGets == 2            \* requests served by GET /api/pools
MaxPools == 2           \* pools of the collection the chart draws
MaxHeight == 4          \* block heights the upstream reports

----------------------------------------------------------------------------
(* Remote data client: CardanoService.fetchApi *)

Retries == 3            \* default value of the `retries` parameter

NetErr == 0             \* fetch() itself rejected: no HTTP status
Statuses == {200, 429, 500, NetErr}

\* `${API_URL}${endpoint}`: the path and the identifier or page it carries
Endpoint(path, arg) == [path |-> path, arg |-> arg]
NoEndpoint == Endpoint("", 0)

NoValue == [type |-> "none", status |-> 0, endpoint |-> NoEndpoint, attempts |-> 0, body |-> <<>>]
NoCall == [endpoint |-> NoEndpoint, attempt |-> 0, st |-> "none", wait |-> 0,
           value |-> NoValue]

IsOk(status) == status >= 200 /\ status <= 299

\* the value a call resolves with: the parsed JSON body of the response
Payload(body) ==
    [type |-> "payload", status |-> 200, endpoint |-> NoEndpoint, attempts |-> 0, body |-> body]

\* new Error(`API call failed: ${response.status} - ${response.statusText}`)
ApiCallFailed(status) ==
    [type |-> "ApiCallFailed", status |-> status, endpoint |-> NoEndpoint, attempts |-> 0, body |-> <<>>]

\* the rejection of fetch() (transport error)
TransportError ==
    [type |-> "TransportError", status |-> NetErr, endpoint |-> NoEndpoint, attempts |-> 0, body |-> <<>>]

\* new Error(`Failed to fetch ${endpoint} after ${retries} attempts`)
FailedAfter(endpoint, retries) ==
    [type |-> "FailedAfter", status |-> 0, endpoint |-> endpoint, attempts |-> retries, body |-> <<>>]

\* entry of fetchApi: attempt = 1 and the first request is in flight; `wait`
\* is the argument of the sleep the call is in (0 when it is not sleeping)
NewCall(endpoint) ==
    [endpoint |-> endpoint, attempt |-> 1, st |-> "awaiting", wait |-> 0,
     value |-> NoValue]

\* waitTime of the 429 branch
RateLimitWait(attempt) == attempt * 2000

\* argument of sleep in the catch branch
ErrorWait(attempt) == 1000 * attempt

\* a 429 branch that goes on to the next attempt without sleeping
OnRateLimited_NoSleep(c) ==
    IF c.attempt + 1 <= Retries
    THEN [c EXCEPT !.attempt = @ + 1]
    ELSE [c EXCEPT !.attempt = @ + 1, !.st = "thrown",
                   !.value = [type |-> "FailedAfter", status |-> 0, endpoint |-> c.endpoint,
                              attempts |-> Retries, body |-> <<>>]]

\* a loop without the 429 branch: the response falls through to `!response.ok`
OnRateLimited_AsError(c) ==
    IF c.attempt = Retries
    THEN [c EXCEPT !.st = "thrown", !.value = ApiCallFailed(429)]
    ELSE [c EXCEPT !.st = "sleeping", !.wait = 1000 * c.attempt]

\* the 429 branch: sleep, then `continue`
OnRateLimited(c) ==
    [c EXCEPT !.st = "sleeping", !.wait = RateLimitWait(c.attempt)]

\* a catch branch that gives up one attempt early
OnError_OneAttemptShort(c, err) ==
    IF c.attempt >= Retries - 1
    THEN [c EXCEPT !.st = "thrown", !.value = err]
    ELSE [c EXCEPT !.st = "sleeping", !.wait = ErrorWait(c.attempt)]

\* the catch branch: rethrow on the last attempt, otherwise sleep
OnError(c, err) ==
    IF c.attempt = Retries
    THEN [c EXCEPT !.st = "thrown", !.value = err]
    ELSE [c EXCEPT !.st = "sleeping", !.wait = ErrorWait(c.attempt)]

\* one response (or rejection) of fetch() handled by the body of the loop
OnResponse(c, status, body) ==
    IF status = NetErr THEN OnError(c, TransportError)
    ELSE IF status = 429 THEN OnRateLimited(c)
    ELSE IF ~IsOk(status) THEN OnError(c, ApiCallFailed(status))
    ELSE [c EXCEPT !.st = "returned", !.value = Payload(body)]

\* a loop without the test `attempt <= retries`
OnWake_NoCeiling(c) ==
    [c EXCEPT !.attempt = @ + 1, !.st = "awaiting", !.wait = 0]

\* a sleep ends: attempt++, loop test, next request or the throw after the loop
OnWake(c) ==
    IF c.attempt + 1 <= Retries
    THEN [c EXCEPT !.attempt = @ + 1, !.st = "awaiting", !.wait = 0]
    ELSE [c EXCEPT !.attempt = @ + 1, !.st = "thrown", !.wait = 0,
                   !.value = FailedAfter(c.endpoint, Retries)]

Settled(c) == c.st \in {"returned", "thrown"}
InFlight(c) == c.st \in {"awaiting", "sleeping"}

----------------------------------------------------------------------------
(* Pool ingestion pipeline: CardanoService.processBatch / getAllStakePools *)

Min(a, b) == IF a <= b THEN a ELSE b

\* only a 2xx response has a body that is read
RespBody(status, body) == IF IsOk(status) THEN body ELSE <<>>

Positions == 1..MaxIds  \* positions of allPoolIds, counted from 1

NoPoolId == 0           \* a detail answer without pool_id
NoMetadata == [present |-> FALSE, name |-> ""]
MetadataBody == [present |-> TRUE, name |-> "Pool"]

\* the k-th identifier the upstream lists
PoolIdAt(k) == 100 + k

\* body of /pools?page=N: k identifiers following the n already listed
PageBody(n, k) == [j \in 1..k |-> PoolIdAt(n + j)]

\* body of /pools/{id}: a partial StakePool; the upstream sends no `active`
\* field (FALSE stands for the absent field) and no metadata
DetailBody(id, hasId) ==
    [pool_id |-> IF hasId THEN id ELSE NoPoolId, active |-> FALSE, metadata |-> NoMetadata]

PageEndpoint(n) == Endpoint("/pools?page=", n)
DetailEndpoint(id) == Endpoint("/pools/{id}", id)
MetadataEndpoint(id) == Endpoint("/pools/{id}/metadata", id)

\* the state of one getAllStakePools run, as a record the steps transform
Run ==
    [pc |-> pc, page |-> page, allPoolIds |-> allPoolIds, allPools |-> allPools,
     i |-> i, pageCall |-> pageCall, detail |-> detail, meta |-> meta,
     batches |-> batches, issued |-> issued, delays |-> delays, progress |-> progress,
     source |-> source, detailOutcome |-> detailOutcome, metaOutcome |-> metaOutcome,
     pageRequests |-> pageRequests, pageLog |-> pageLog]

SetRun(r) ==
    /\ pc' = r.pc
    /\ page' = r.page
    /\ allPoolIds' = r.allPoolIds
    /\ allPools' = r.allPools
    /\ i' = r.i
    /\ pageCall' = r.pageCall
    /\ detail' = r.detail
    /\ meta' = r.meta
    /\ batches' = r.batches
    /\ issued' = r.issued
    /\ delays' = r.delays
    /\ progress' = r.progress
    /\ source' = r.source
    /\ detailOutcome' = r.detailOutcome
    /\ metaOutcome' = r.metaOutcome
    /\ pageRequests' = r.pageRequests
    /\ pageLog' = r.pageLog

\* a slice that runs one identifier into the next batch
BatchPositions_Overlapping(r, startIdx) ==
    (startIdx + 1)..Min(startIdx + batchSize + 1, Len(r.allPoolIds))

\* positions of poolIds.slice(startIdx, startIdx + batchSize)
BatchPositions(r, startIdx) ==
    (startIdx + 1)..Min(startIdx + batchSize, Len(r.allPoolIds))

\* the promises of a batch that has ended are dropped once they are settled
DropSettled(calls, ps) ==
    [pos \in Positions |-> IF pos \in ps /\ Settled(calls[pos]) THEN NoCall ELSE calls[pos]]

\* processBatch up to `await Promise.all(poolPromises)`: one detail call per
\* identifier of the slice, all started at once
ProcessBatch(r, startIdx) ==
    LET ps == BatchPositions(r, startIdx)
    IN  [r EXCEPT !.pc = "details",
                  !.i = startIdx,
                  !.batches = Append(@, startIdx),
                  !.detail = [pos \in Positions |->
                                 IF pos \in ps
                                 THEN NewCall(DetailEndpoint(r.allPoolIds[pos]))
                                 ELSE @[pos]],
                  !.issued = [pos \in Positions |->
                                 IF pos \in ps THEN @[pos] + 1 ELSE @[pos]]]

\* test of the batch loop with index startIdx: next batch, or `return allPools`
BatchLoop(r, startIdx) ==
    IF startIdx < Len(r.allPoolIds)
    THEN ProcessBatch(r, startIdx)
    ELSE [r EXCEPT !.pc = "returned", !.i = startIdx]

\* a catch block that keeps the records of the detail calls that succeeded
BatchFailed_KeepsReturned(r) ==
    LET ps == BatchPositions(r, r.i)
        kept == SelectSeq([j \in 1..Cardinality(ps) |-> r.i + j],
                          LAMBDA q : r.detail[q].st = "returned")
        r1 == [r EXCEPT !.allPools = @ \o [j \in 1..Len(kept) |-> r.detail[kept[j]].value.body],
                        !.source = @ \o kept,
                        !.detail = DropSettled(@, ps)]
    IN  BatchLoop(r1, r.i + batchSize)

\* a catch block that rethrows, so that a failed batch aborts the run
BatchFailed_Rethrows(r) ==
    [r EXCEPT !.pc = "failed", !.detail = DropSettled(@, BatchPositions(r, r.i))]

\* catch (batchError): log and `continue` with the next batch
BatchFailed(r) ==
    LET ps == BatchPositions(r, r.i)
    IN  BatchLoop([r EXCEPT !.detail = DropSettled(@, ps)], r.i + batchSize)

\* a catch block of the metadata call that returns the pool as it came
PoolWithMetadata_BarePoolOnFailure(pool, metaCall) ==
    IF pool.pool_id = NoPoolId THEN pool
    ELSE IF metaCall.st = "returned"
         THEN [pool EXCEPT !.active = TRUE, !.metadata = metaCall.value.body]
         ELSE pool

\* the record a pool contributes once its metadata promise is settled
PoolWithMetadata(pool, metaCall) ==
    IF pool.pool_id = NoPoolId THEN pool
    ELSE IF metaCall.st = "returned"
         THEN [pool EXCEPT !.active = TRUE, !.metadata = metaCall.value.body]
         ELSE [pool EXCEPT !.active = TRUE]

\* processBatch has returned: push, onProgress, then the delay or the loop
BatchDone(r) ==
    LET ps == BatchPositions(r, r.i)
        n == Len(r.allPoolIds)
        batchPools == [j \in 1..Cardinality(ps) |->
                          PoolWithMetadata(r.detail[r.i + j].value.body, r.meta[r.i + j])]
        r1 == [r EXCEPT !.allPools = @ \o batchPools,
                        !.source = @ \o [j \in 1..Cardinality(ps) |-> r.i + j],
                        !.progress = Append(@, <<Len(r.allPools) + Len(batchPools), n>>),
                        !.detail = DropSettled(@, ps),
                        !.meta = DropSettled(@, ps)]
    IN  IF r.i + batchSize < n
        THEN [r1 EXCEPT !.pc = "delay", !.delays = @ + 1]
        ELSE BatchLoop(r1, r.i + batchSize)

\* every metadata promise of the batch is settled (a pool without pool_id has none)
MetadataSettled(r) ==
    \A pos \in BatchPositions(r, r.i) : ~InFlight(r.meta[pos])

\* Promise.all(poolPromises) has resolved: one metadata call per pool that
\* has a pool_id, all started at once
StartMetadata(r) ==
    LET ps == BatchPositions(r, r.i)
        r1 == [r EXCEPT !.pc = "metadata",
                        !.meta = [pos \in Positions |->
                                     IF pos \in ps /\ r.detail[pos].value.body.pool_id # NoPoolId
                                     THEN NewCall(MetadataEndpoint(r.detail[pos].value.body.pool_id))
                                     ELSE @[pos]]]
    IN  IF MetadataSettled(r1) THEN BatchDone(r1) ELSE r1

\* a detail call has moved to state c
DetailStep(r, pos, c) ==
    LET r1 == [r EXCEPT !.detail[pos] = c,
                        !.detailOutcome[pos] = IF Settled(c) THEN c.st ELSE @]
        ps == BatchPositions(r, r.i)
    IN  IF r.pc = "details" /\ pos \in ps
        THEN IF c.st = "thrown" THEN BatchFailed(r1)
             ELSE IF \A q \in ps : r1.detail[q].st = "returned" THEN StartMetadata(r1)
             ELSE r1
        ELSE \* a call of a batch that has already failed: nobody awaits it
             IF Settled(c) THEN [r1 EXCEPT !.detail[pos] = NoCall] ELSE r1

\* a metadata call has moved to state c
MetadataStep(r, pos, c) ==
    LET r1 == [r EXCEPT !.meta[pos] = c,
                        !.metaOutcome[pos] = IF Settled(c) THEN c.st ELSE @]
    IN  IF MetadataSettled(r1) THEN BatchDone(r1) ELSE r1

\* a discovery loop that puts each page in front of the pages before it
PageStep_NewestPageFirst(r, c) ==
    LET r1 == [r EXCEPT !.pageCall = c,
                        !.pageLog = IF c.st = "returned" THEN Append(@, c.value.body) ELSE @]
    IN  IF c.st = "thrown" THEN [r1 EXCEPT !.pc = "failed"]
        ELSE IF c.st = "returned"
        THEN IF Len(c.value.body) = 0
             THEN BatchLoop([r1 EXCEPT !.pageCall = NoCall,
                                       !.progress = Append(@, <<0, Len(r.allPoolIds)>>)], 0)
             ELSE [r1 EXCEPT !.allPoolIds = c.value.body \o @,
                             !.page = @ + 1,
                             !.pageCall = NewCall(PageEndpoint(r.page + 1)),
                             !.pageRequests = Append(@, r.page + 1)]
        ELSE r1

\* the discovery loop after its page call has moved to state c
PageStep(r, c) ==
    LET r1 == [r EXCEPT !.pageCall = c,
                        !.pageLog = IF c.st = "returned" THEN Append(@, c.value.body) ELSE @]
    IN  IF c.st = "thrown" THEN [r1 EXCEPT !.pc = "failed"]
        ELSE IF c.st = "returned"
        THEN IF Len(c.value.body) = 0
             THEN BatchLoop([r1 EXCEPT !.pageCall = NoCall,
                                       !.progress = Append(@, <<0, Len(r.allPoolIds)>>)], 0)
             ELSE [r1 EXCEPT !.allPoolIds = @ \o c.value.body,
                             !.page = @ + 1,
                             !.pageCall = NewCall(PageEndpoint(r.page + 1)),
                             !.pageRequests = Append(@, r.page + 1)]
        ELSE r1

IsFailure(status) == status # 429 /\ ~IsOk(status)

GetAllStakePools ==
    /\ pc = "idle"
    /\ SetRun([Run EXCEPT !.pc = "discovery", !.page = 1, !.allPoolIds = <<>>,
                          !.allPools = <<>>, !.pageCall = NewCall(PageEndpoint(1)),
                          !.pageRequests = <<1>>])
    /\ UNCHANGED <<batchSize, sawFailure, clientVars, renderVars, pollerVars, cacheVars>>

\* the upstream lists its pools in pages of MaxPageLen identifiers: it answers
\* with k identifiers, none after a page that was not full
PageRespond(status, k) ==
    /\ pc = "discovery"
    /\ pageCall.st = "awaiting"
    /\ Len(allPoolIds) + k <= MaxIds
    /\ (k > 0 /\ pageLog # <<>>) => Len(pageLog[Len(pageLog)]) = MaxPageLen
    /\ SetRun(PageStep(Run, OnResponse(pageCall, status,
                                       RespBody(status, PageBody(Len(allPoolIds), k)))))
    /\ sawFailure' = (sawFailure \/ IsFailure(status))
    /\ UNCHANGED <<batchSize, clientVars, renderVars, pollerVars, cacheVars>>

PageWake ==
    /\ pc = "discovery"
    /\ pageCall.st = "sleeping"
    /\ SetRun(PageStep(Run, OnWake(pageCall)))
    /\ UNCHANGED <<batchSize, sawFailure, clientVars, renderVars, pollerVars, cacheVars>>

DetailRespond(pos, status, hasId) ==
    /\ detail[pos].st = "awaiting"
    /\ SetRun(DetailStep(Run, pos, OnResponse(detail[pos], status,
                             RespBody(status, DetailBody(detail[pos].endpoint.arg, hasId)))))
    /\ sawFailure' = (sawFailure \/ IsFailure(status))
    /\ UNCHANGED <<batchSize, clientVars, renderVars, pollerVars, cacheVars>>

DetailWake(pos) ==
    /\ detail[pos].st = "sleeping"
    /\ SetRun(DetailStep(Run, pos, OnWake(detail[pos])))
    /\ UNCHANGED <<batchSize, sawFailure, clientVars, renderVars, pollerVars, cacheVars>>

MetadataRespond(pos, status) ==
    /\ meta[pos].st = "awaiting"
    /\ SetRun(MetadataStep(Run, pos, OnResponse(meta[pos], status,
                                                RespBody(status, MetadataBody))))
    /\ sawFailure' = (sawFailure \/ IsFailure(status))
    /\ UNCHANGED <<batchSize, clientVars, renderVars, pollerVars, cacheVars>>

MetadataWake(pos) ==
    /\ meta[pos].st = "sleeping"
    /\ SetRun(MetadataStep(Run, pos, OnWake(meta[pos])))
    /\ UNCHANGED <<batchSize, sawFailure, clientVars, renderVars, pollerVars, cacheVars>>

\* the inter-batch sleep ends: i += batchSize and the loop test
DelayWake ==
    /\ pc = "delay"
    /\ SetRun(BatchLoop(Run, i + batchSize))
    /\ UNCHANGED <<batchSize, sawFailure, clientVars, renderVars, pollerVars, cacheVars>>

\* the service as constructed, with batch size b
ServiceCreated(b) ==
    /\ batchSize = b
    /\ pc = "idle"
    /\ page = 0
    /\ allPoolIds = <<>>
    /\ allPools = <<>>
    /\ i = 0
    /\ pageCall = NoCall
    /\ detail = [pos \in Positions |-> NoCall]
    /\ meta = [pos \in Positions |-> NoCall]
    /\ batches = <<>>
    /\ issued = [pos \in Positions |-> 0]
    /\ delays = 0
    /\ progress = <<>>
    /\ source = <<>>
    /\ detailOutcome = [pos \in Positions |-> "none"]
    /\ metaOutcome = [pos \in Positions |-> "none"]
    /\ sawFailure = FALSE
    /\ pageRequests = <<>>
    /\ pageLog = <<>>

NextIngest ==
    \/ GetAllStakePools
    \/ \E s \in Statuses, k \in 0..MaxPageLen : PageRespond(s, k)
    \/ PageWake
    \/ \E pos \in Positions, s \in Statuses, hasId \in BOOLEAN : DetailRespond(pos, s, hasId)
    \/ \E pos \in Positions : DetailWake(pos)
    \/ \E pos \in Positions, s \in Statuses : MetadataRespond(pos, s)
    \/ \E pos \in Positions : MetadataWake(pos)
    \/ DelayWake

----------------------------------------------------------------------------
(* Live block poller: the polling effect of StakePoolBubbleChart *)

MAX_HISTORY == 3

Null == 0               \* null: no height observed, no slot leader

\* pool collections the chart is given; pool 102 has no metadata and pool 103
\* is in none of them
PoolsLoaded ==
    << [pool_id |-> 101, active |-> TRUE, metadata |-> [present |-> TRUE, name |-> "Alpha"]],
       [pool_id |-> 102, active |-> TRUE, metadata |-> NoMetadata] >>
PoolsReloaded ==
    << [pool_id |-> 101, active |-> TRUE, metadata |-> [present |-> TRUE, name |-> "Beta"]] >>
PoolCollections == {PoolsLoaded, PoolsReloaded}

\* the BlockUpdate of a response: the upstream knows one block at each
\* height, minted by pool 101, 102 or 103 in turn, and a competing block at
\* height 1 minted by another pool at another time (hash, epoch and slot are
\* carried like time)
BlockUpdates ==
    {[slot_leader |-> 101 + ((h - 1) % 3), time |-> 20 * h, height |-> h] : h \in 1..MaxHeight}
        \cup {[slot_leader |-> 103, time |-> 21, height |-> 1]}
NoBlock == [slot_leader |-> Null, time |-> 0, height |-> Null]

\* `${n}`: the decimal digits of a number
RECURSIVE ToDigits(_)
ToDigits(n) ==
    LET d == <<"0", "1", "2", "3", "4", "5", "6", "7", "8", "9">>
    IN  IF n < 10 THEN <<d[n + 1]>> ELSE Append(ToDigits(n \div 10), d[(n % 10) + 1])

\* pools.find(pool => pool.pool_id === leader): index of the first match, 0 if none
RECURSIVE FindPool(_, _, _)
FindPool(ps, leader, from) ==
    IF from > Len(ps) THEN 0
    ELSE IF ps[from].pool_id = leader THEN from
    ELSE FindPool(ps, leader, from + 1)

\* leaderPool?.metadata?.name || 'Unknown Pool'
PoolName(ps, leader) ==
    LET k == FindPool(ps, leader, 1)
    IN  IF k = 0 THEN "Unknown Pool"
        ELSE IF ~ps[k].metadata.present THEN "Unknown Pool"
        ELSE IF ps[k].metadata.name = "" THEN "Unknown Pool"
        ELSE ps[k].metadata.name

\* a poller without the novelty test
IsNewBlock_Always(data, last) == TRUE

\* data.height !== lastBlockRef.current
IsNewBlock(data, last) == data.height # last

\* { ...data, poolName, uniqueId: `${data.height}` }
Notification(data, poolName) ==
    [slot_leader |-> data.slot_leader, time |-> data.time, height |-> data.height,
     poolName |-> poolName, uniqueId |-> ToDigits(data.height)]

\* an updater that does not filter the previous entries
FilterHeight_KeepsAll(prev, height) == prev

\* prev.filter(block => block.height !== height)
RECURSIVE FilterHeight(_, _)
FilterHeight(prev, height) ==
    IF prev = <<>> THEN <<>>
    ELSE IF Head(prev).height # height
         THEN <<Head(prev)>> \o FilterHeight(Tail(prev), height)
         ELSE FilterHeight(Tail(prev), height)

\* an updater that puts the new entry behind the entries kept
UpdateHistory_OldestFirst(prev, entry) ==
    SubSeq(FilterHeight(prev, entry.height), 1,
           Min(MAX_HISTORY - 1, Len(FilterHeight(prev, entry.height)))) \o <<entry>>

\* the updater passed to setBlockHistory
UpdateHistory(prev, entry) ==
    <<entry>> \o SubSeq(FilterHeight(prev, entry.height), 1,
                        Min(MAX_HISTORY - 1, Len(FilterHeight(prev, entry.height))))

\* a fetchLatestBlock call of the closure over ps starts: its request is in flight
StartFetch(fl, ps) == [fl EXCEPT ![ps] = @ + 1]

RECURSIVE InFlightCount(_, _)
InFlightCount(fl, colls) ==
    IF colls = {} THEN 0
    ELSE LET ps == CHOOSE x \in colls : TRUE
         IN  fl[ps] + InFlightCount(fl, colls \ {ps})

\* the effect runs after the first render: initial fetch and setInterval
Mount ==
    /\ phase = "created"
    /\ InFlightCount(inflight, PoolCollections) < MaxInFlight
    /\ phase' = "mounted"
    /\ inflight' = StartFetch(inflight, pools)
    /\ UNCHANGED <<pools, currentSlotLeader, blockHistory, lastBlockRef, lastObs, nObs, arrivals, lastPoll,
                   clientVars, renderVars, ingestVars, cacheVars>>

\* the interval of the current effect fires
IntervalTick ==
    /\ phase = "mounted"
    /\ InFlightCount(inflight, PoolCollections) < MaxInFlight
    /\ inflight' = StartFetch(inflight, pools)
    /\ UNCHANGED <<phase, pools, currentSlotLeader, blockHistory, lastBlockRef, lastObs,
                   nObs, arrivals, lastPoll, clientVars, renderVars, ingestVars, cacheVars>>

\* the pools prop changes: cleanup (clearInterval), then the effect runs again
\* with the new pools: initial fetch and a new interval
PoolsChange(ps) ==
    /\ phase = "mounted"
    /\ ps # pools
    /\ InFlightCount(inflight, PoolCollections) < MaxInFlight
    /\ pools' = ps
    /\ inflight' = StartFetch(inflight, ps)
    /\ UNCHANGED <<phase, currentSlotLeader, blockHistory, lastBlockRef, lastObs, nObs, arrivals, lastPoll,
                   clientVars, renderVars, ingestVars, cacheVars>>

\* the chart is unmounted: cleanup (clearInterval); requests stay in flight
Unmount ==
    /\ phase = "mounted"
    /\ phase' = "unmounted"
    /\ UNCHANGED <<pools, currentSlotLeader, blockHistory, lastBlockRef, inflight,
                   lastObs, nObs, arrivals, lastPoll, clientVars, renderVars, ingestVars, cacheVars>>

\* an OK response reaches a fetchLatestBlock call of the closure over ps;
\* the state setters of an unmounted component have no effect
BlockRespond(ps, data) ==
    /\ inflight[ps] > 0
    /\ nObs < MaxBlocks
    /\ inflight' = [inflight EXCEPT ![ps] = @ - 1]
    /\ lastObs' = data
    /\ nObs' = nObs + 1
    /\ lastPoll' = "ok"
    /\ IF IsNewBlock(data, lastBlockRef)
       THEN /\ lastBlockRef' = data.height
            /\ IF phase = "mounted"
               THEN /\ currentSlotLeader' = data.slot_leader
                    /\ blockHistory' = UpdateHistory(blockHistory,
                                          Notification(data, PoolName(ps, data.slot_leader)))
                    /\ arrivals' = Append(arrivals,
                                          Notification(data, PoolName(ps, data.slot_leader)))
               ELSE UNCHANGED <<currentSlotLeader, blockHistory, arrivals>>
       ELSE UNCHANGED <<lastBlockRef, currentSlotLeader, blockHistory, arrivals>>
    /\ UNCHANGED <<phase, pools, clientVars, renderVars, ingestVars, cacheVars>>

\* a catch block that clears the current slot leader
BlockFail_ClearsLeader(ps) ==
    /\ inflight[ps] > 0
    /\ inflight' = [inflight EXCEPT ![ps] = @ - 1]
    /\ lastPoll' = "failed"
    /\ currentSlotLeader' = Null
    /\ UNCHANGED <<phase, pools, blockHistory, lastBlockRef, lastObs, nObs, arrivals,
                   clientVars, renderVars, ingestVars, cacheVars>>

\* the request fails or its response is not OK: caught and logged
BlockFail(ps) ==
    /\ inflight[ps] > 0
    /\ inflight' = [inflight EXCEPT ![ps] = @ - 1]
    /\ lastPoll' = "failed"
    /\ UNCHANGED <<phase, pools, currentSlotLeader, blockHistory, lastBlockRef,
                   lastObs, nObs, arrivals, clientVars, renderVars, ingestVars, cacheVars>>

\* the chart as constructed, given the pool collection ps
ChartCreated(ps) ==
    /\ phase = "created"
    /\ pools = ps
    /\ currentSlotLeader = Null
    /\ blockHistory = <<>>
    /\ lastBlockRef = Null
    /\ inflight = [coll \in PoolCollections |-> 0]
    /\ lastObs = NoBlock
    /\ nObs = 0
    /\ arrivals = <<>>
    /\ lastPoll = "none"
    /\ poolData = <<>>
    /\ rendered = FALSE

NextPoller ==
    \/ Mount
    \/ IntervalTick
    \/ \E ps \in PoolCollections : PoolsChange(ps)
    \/ Unmount
    \/ \E ps \in PoolCollections, data \in BlockUpdates : BlockRespond(ps, data)
    \/ \E ps \in PoolCollections : BlockFail(ps)

----------------------------------------------------------------------------
(* Chart drawing effect of StakePoolBubbleChart: the leaves of the layout *)

\* pool.live_stake: undefined, or a string
NoStake == [present |-> FALSE, text |-> <<>>]
Stake(text) == [present |-> TRUE, text |-> text]

\* the live_stake values of the pools drawn: none, "", "0", and two amounts
StakeValues ==
    {NoStake, Stake(<<>>), Stake(<<"0">>), Stake(ToDigits(5000000)), Stake(ToDigits(1500000))}

\* the metadata values of the pools drawn: none, { name: "Test" } and {}
MetadataValues ==
    {NoMetadata, [present |-> TRUE, name |-> "Test"], [present |-> TRUE, name |-> ""]}

\* the k-th pool of a collection
StakePoolAt(k, stake, md) ==
    [pool_id |-> 200 + k, live_stake |-> stake, metadata |-> md, blocks_minted |-> k]

\* the collections of up to MaxPools pools
PoolLists ==
    UNION { { [k \in 1..n |-> StakePoolAt(k, f[k][1], f[k][2])] :
                f \in [1..n -> StakeValues \X MetadataValues] } : n \in 0..MaxPools }

\* truthiness of a string or undefined: a non-empty string
Truthy(stake) == stake.present /\ stake.text # <<>>

IsDigit(ch) == ch \in {"0", "1", "2", "3", "4", "5", "6", "7", "8", "9"}
DigitValue(ch) == CHOOSE d \in 0..9 : ToDigits(d) = <<ch>>

\* the number denoted by the leading digits of a text, after acc
RECURSIVE ParseDigits(_, _)
ParseDigits(text, acc) ==
    IF text = <<>> \/ ~IsDigit(Head(text)) THEN acc
    ELSE ParseDigits(Tail(text), 10 * acc + DigitValue(Head(text)))

NaN == [nan |-> TRUE, whole |-> 0, millionths |-> 0]

\* parseInt(text) for a text without sign or leading blanks: NaN unless it
\* starts with a digit
ParseInt(text) ==
    IF text = <<>> \/ ~IsDigit(Head(text)) THEN [nan |-> TRUE, n |-> 0]
    ELSE [nan |-> FALSE, n |-> ParseDigits(text, 0)]

\* x / 1e6, as whole ADA and millionths of an ADA
ToAda(x) ==
    IF x.nan THEN NaN
    ELSE [nan |-> FALSE, whole |-> x.n \div 1000000, millionths |-> x.n % 1000000]

\* a filter that asks for the stake only
IsLeaf_StakeOnly(pool) == Truthy(pool.live_stake)

\* pool => pool.live_stake && pool.metadata
IsLeaf(pool) == Truthy(pool.live_stake) /\ pool.metadata.present

\* the PoolData of a pool (homepage and ticker are carried like name)
PoolDatum(pool) ==
    [id |-> pool.pool_id,
     value |-> ToAda(ParseInt(pool.live_stake.text)),
     name |-> IF pool.metadata.present /\ pool.metadata.name # ""
              THEN pool.metadata.name ELSE "Unknown",
     blocks |-> pool.blocks_minted]

\* pools.filter(...).map(...)
RECURSIVE PoolDataOf(_)
PoolDataOf(ps) ==
    IF ps = <<>> THEN <<>>
    ELSE (IF IsLeaf(Head(ps)) THEN <<PoolDatum(Head(ps))>> ELSE <<>>) \o PoolDataOf(Tail(ps))

\* the drawing effect runs: nothing is drawn anew for an empty collection
RenderEffect ==
    /\ ~rendered
    /\ rendered' = TRUE
    /\ poolData' = IF Len(pools) = 0 THEN poolData ELSE PoolDataOf(pools)
    /\ UNCHANGED <<clientVars, ingestVars, pollerVars, cacheVars>>

NextRender == RenderEffect

----------------------------------------------------------------------------
(* Cache store: the two cache files, the update job and GET /api/pools *)

\* a file of the cache directory: absent, or present with a text
Absent == [exists |-> FALSE, text |-> <<>>]
File(text) == [exists |-> TRUE, text |-> text]

NoPool == [pool_id |-> NoPoolId, active |-> FALSE, metadata |-> NoMetadata]

\* the tokens of a JSON text
Token(t) == [t |-> t, v |-> NoPool]
ObjectToken(pool) == [t |-> "object", v |-> pool]

\* JSON.stringify of a pool list
RECURSIVE StringifyItems(_)
StringifyItems(list) ==
    IF list = <<>> THEN <<>>
    ELSE IF Len(list) = 1 THEN <<ObjectToken(list[1])>>
    ELSE <<ObjectToken(list[1]), Token(",")>> \o StringifyItems(Tail(list))

Stringify(list) == <<Token("[")>> \o StringifyItems(list) \o <<Token("]")>>

\* the items between the brackets: object (, object)*
RECURSIVE ParseItems(_)
ParseItems(toks) ==
    IF toks = <<>> THEN [ok |-> FALSE, value |-> <<>>]
    ELSE IF toks[1].t # "object" THEN [ok |-> FALSE, value |-> <<>>]
    ELSE IF Len(toks) = 1 THEN [ok |-> TRUE, value |-> <<toks[1].v>>]
    ELSE IF toks[2].t # "," THEN [ok |-> FALSE, value |-> <<>>]
    ELSE LET rest == ParseItems(SubSeq(toks, 3, Len(toks)))
         IN  [ok |-> rest.ok, value |-> IF rest.ok THEN <<toks[1].v>> \o rest.value ELSE <<>>]

\* JSON.parse of a text: ok is FALSE where JSON.parse throws
Parse(text) ==
    IF Len(text) < 2 THEN [ok |-> FALSE, value |-> <<>>]
    ELSE IF text[1].t # "[" \/ text[Len(text)].t # "]" THEN [ok |-> FALSE, value |-> <<>>]
    ELSE IF Len(text) = 2 THEN [ok |-> TRUE, value |-> <<>>]
    ELSE ParseItems(SubSeq(text, 2, Len(text) - 1))

\* the ISO timestamp of a run
Timestamp(run) == <<"T">> \o ToDigits(run)

\* the pool lists an ingestion run hands to the job
Snapshots == {<<>>, PoolsLoaded, PoolsReloaded}

NoResponse == [status |-> 0, pools |-> <<>>, lastUpdate |-> <<>>, totalPools |-> 0, error |-> ""]

\* NextResponse.json({ error }, { status })
ErrorResponse(status, error) ==
    [status |-> status, pools |-> <<>>, lastUpdate |-> <<>>, totalPools |-> 0, error |-> error]

\* a response that counts only the pools that have metadata
PoolsResponse_CountsMetadata(poolsData, lastUpdate) ==
    [status |-> 200, pools |-> poolsData, lastUpdate |-> lastUpdate,
     totalPools |-> Cardinality({j \in 1..Len(poolsData) : poolsData[j].metadata.present}),
     error |-> ""]

\* NextResponse.json({ pools: poolsData, lastUpdate, totalPools: poolsData.length })
PoolsResponse(poolsData, lastUpdate) ==
    [status |-> 200, pools |-> poolsData, lastUpdate |-> lastUpdate,
     totalPools |-> Len(poolsData), error |-> ""]

\* a script that ends with exit 0
ScriptExit_AlwaysZero(code) == 0

\* update-cache.sh: exit $? hands on the exit code of the script it ran
ScriptExit(code) == code

\* a run of the job reaches its write phase with the result of its ingestion
JobStart(result) ==
    /\ jobPc = "idle"
    /\ jobRun < MaxRuns
    /\ jobPc' = "open_snapshot"
    /\ jobRun' = jobRun + 1
    /\ jobResult' = result
    /\ getOverlap' = (getOverlap \/ getPc # "idle")
    /\ UNCHANGED <<poolsFile, timestampFile, getPc, getData, response, served,
                   jobLog, clientVars, renderVars, ingestVars, pollerVars>>

\* the write of a file opens it truncated, then writes the text
JobOpenSnapshot ==
    /\ jobPc = "open_snapshot"
    /\ poolsFile' = File(<<>>)
    /\ jobPc' = "write_snapshot"
    /\ getOverlap' = (getOverlap \/ getPc # "idle")
    /\ UNCHANGED <<timestampFile, jobRun, jobResult, getPc, getData, response, served,
                   jobLog, clientVars, renderVars, ingestVars, pollerVars>>

JobWriteSnapshot ==
    /\ jobPc = "write_snapshot"
    /\ poolsFile' = File(Stringify(jobResult))
    /\ jobPc' = "open_timestamp"
    /\ getOverlap' = (getOverlap \/ getPc # "idle")
    /\ UNCHANGED <<timestampFile, jobRun, jobResult, getPc, getData, response, served,
                   jobLog, clientVars, renderVars, ingestVars, pollerVars>>

JobOpenTimestamp ==
    /\ jobPc = "open_timestamp"
    /\ timestampFile' = File(<<>>)
    /\ jobPc' = "write_timestamp"
    /\ getOverlap' = (getOverlap \/ getPc # "idle")
    /\ UNCHANGED <<poolsFile, jobRun, jobResult, getPc, getData, response, served,
                   jobLog, clientVars, renderVars, ingestVars, pollerVars>>

\* the timestamp is written and the run ends
JobWriteTimestamp ==
    /\ jobPc = "write_timestamp"
    /\ timestampFile' = File(Timestamp(jobRun))
    /\ jobPc' = "idle"
    /\ jobLog' = Append(jobLog, [exit |-> ScriptExit(0), result |-> jobResult])
    /\ getOverlap' = (getOverlap \/ getPc # "idle")
    /\ UNCHANGED <<poolsFile, jobRun, jobResult, getPc, getData, response, served,
                   clientVars, renderVars, ingestVars, pollerVars>>

\* a run of the job whose ingestion throws: nothing is written
JobFail ==
    /\ jobPc = "idle"
    /\ jobRun < MaxRuns
    /\ jobRun' = jobRun + 1
    /\ jobLog' = Append(jobLog, [exit |-> ScriptExit(1), result |-> <<>>])
    /\ UNCHANGED <<poolsFile, timestampFile, jobPc, jobResult, getPc, getData,
                   getOverlap, response, served, clientVars, renderVars, ingestVars, pollerVars>>

\* GET: fs.existsSync(POOLS_CACHE_FILE)
GetExists ==
    /\ getPc = "idle"
    /\ served < MaxGets
    /\ getOverlap' = (jobPc # "idle")
    /\ IF ~poolsFile.exists
       THEN /\ response' = ErrorResponse(503, "Pool data not cached yet")
            /\ served' = served + 1
            /\ UNCHANGED getPc
       ELSE /\ getPc' = "read_pools"
            /\ UNCHANGED <<response, served>>
    /\ UNCHANGED <<poolsFile, timestampFile, jobPc, jobRun, jobResult, getData,
                   jobLog, clientVars, renderVars, ingestVars, pollerVars>>

\* GET: JSON.parse(fs.readFileSync(POOLS_CACHE_FILE)); a throw is answered
\* by the catch block
GetReadPools ==
    /\ getPc = "read_pools"
    /\ IF poolsFile.exists /\ Parse(poolsFile.text).ok
       THEN /\ getData' = Parse(poolsFile.text).value
            /\ getPc' = "read_timestamp"
            /\ UNCHANGED <<response, served>>
       ELSE /\ response' = ErrorResponse(500, "Internal server error")
            /\ served' = served + 1
            /\ getPc' = "idle"
            /\ UNCHANGED getData
    /\ UNCHANGED <<poolsFile, timestampFile, jobPc, jobRun, jobResult, getOverlap,
                   jobLog, clientVars, renderVars, ingestVars, pollerVars>>

\* GET: fs.readFileSync(CACHE_TIMESTAMP_FILE) and the response
GetReadTimestamp ==
    /\ getPc = "read_timestamp"
    /\ response' = IF timestampFile.exists
                   THEN PoolsResponse(getData, timestampFile.text)
                   ELSE ErrorResponse(500, "Internal server error")
    /\ served' = served + 1
    /\ getPc' = "idle"
    /\ getData' = <<>>
    /\ UNCHANGED <<poolsFile, timestampFile, jobPc, jobRun, jobResult, getOverlap,
                   jobLog, clientVars, renderVars, ingestVars, pollerVars>>

\* no cache file has been written and no request served
CacheCreated ==
    /\ poolsFile = Absent
    /\ timestampFile = Absent
    /\ jobPc = "idle"
    /\ jobRun = 0
    /\ jobResult = <<>>
    /\ jobLog = <<>>
    /\ getPc = "idle"
    /\ getData = <<>>
    /\ getOverlap = FALSE
    /\ response = NoResponse
    /\ served = 0

NextCache ==
    \/ \E result \in Snapshots : JobStart(result)
    \/ JobOpenSnapshot
    \/ JobWriteSnapshot
    \/ JobOpenTimestamp
    \/ JobWriteTimestamp
    \/ JobFail
    \/ GetExists
    \/ GetReadPools
    \/ GetReadTimestamp

----------------------------------------------------------------------------
(* Client component on its own: fetchApi calls made one after the other *)

Endpoints == {Endpoint("/epochs/latest", 0), Endpoint("/pools/{id}", 1)}
Bodies == {<<"b1">>, <<"b2">>}

CallStart(e) ==
    /\ call.st \in {"none", "returned", "thrown"}
    /\ callsMade < MaxCalls
    /\ call' = NewCall(e)
    /\ callLog' = <<>>
    /\ callSleeps' = <<>>
    /\ callsMade' = callsMade + 1
    /\ UNCHANGED <<ingestVars, pollerVars, cacheVars, renderVars>>

CallRespond(status, body) ==
    /\ call.st = "awaiting"
    /\ call' = OnResponse(call, status, RespBody(status, body))
    /\ callLog' = Append(callLog, [status |-> status, body |-> RespBody(status, body)])
    /\ callSleeps' = IF call'.st = "sleeping" THEN Append(callSleeps, call'.wait)
                                              ELSE callSleeps
    /\ UNCHANGED <<callsMade, ingestVars, pollerVars, cacheVars, renderVars>>

CallWake ==
    /\ call.st = "sleeping"
    /\ call' = OnWake(call)
    /\ UNCHANGED <<callLog, callSleeps, callsMade, ingestVars, pollerVars, cacheVars, renderVars>>

\* no fetchApi call has been made
ClientCreated ==
    /\ call = NoCall
    /\ callLog = <<>>
    /\ callSleeps = <<>>
    /\ callsMade = 0

\* every component as constructed, with the default batch size scaled down
Init ==
    /\ ClientCreated
    /\ ServiceCreated(MaxBatchSize)
    /\ ChartCreated(PoolsLoaded)
    /\ CacheCreated

\* ingestion runs for every batch size up to MaxBatchSize
InitIngest ==
    /\ ClientCreated
    /\ \E b \in 1..MaxBatchSize : ServiceCreated(b)
    /\ ChartCreated(PoolsLoaded)
    /\ CacheCreated

\* the chart is given either pool collection
InitPoller ==
    /\ ClientCreated
    /\ ServiceCreated(MaxBatchSize)
    /\ \E ps \in PoolCollections : ChartCreated(ps)
    /\ CacheCreated

\* the chart is given any collection of up to MaxPools pools
InitRender ==
    /\ ClientCreated
    /\ ServiceCreated(MaxBatchSize)
    /\ \E ps \in PoolLists : ChartCreated(ps)
    /\ CacheCreated

NextFetch ==
    \/ \E e \in Endpoints : CallStart(e)
    \/ \E s \in Statuses, b \in Bodies : CallRespond(s, b)
    \/ CallWake

SpecFetch == Init /\ [][NextFetch]_vars

SpecIngest == InitIngest /\ [][NextIngest]_vars

SpecPoller == InitPoller /\ [][NextPoller]_vars

SpecCache == Init /\ [][NextCache]_vars
SpecRender == InitRender /\ [][NextRender]_vars

----------------------------------------------------------------------------
(* Properties of the client *)

\* number of requests the call has sent to the upstream
Requests == Len(callLog) + (IF call.st = "awaiting" THEN 1 ELSE 0)

\* the first n responses of a log were all HTTP 429
RateLimitedPrefix(log, n) == \A j \in 1..n : log[j].status = 429

\* every response of a log was a failure other than 429
AllFailures(log) == \A j \in 1..Len(log) : log[j].status # 429 /\ ~IsOk(log[j].status)

\* the error the catch branch sees for a failed attempt
ErrorOf(status) == IF status = NetErr THEN TransportError ELSE ApiCallFailed(status)

\* C2 as stated: for every k >= 0, a call answered with k consecutive 429s
\* has not thrown (it goes on to receive the 200 that follows them).
C2_NeverThrowsOn429s ==
    RateLimitedPrefix(callLog, Len(callLog)) => call.st # "thrown"

\* C2 amended: for every k with 0 <= k < Retries, a call answered with k
\* consecutive 429s followed by a 200 returns the payload of that 200 and has
\* slept exactly k times (attempt * 2000 ms each); a call answered with
\* Retries consecutive 429s sleeps Retries times and then throws, without
\* sending a further request.
C2_RetryThenReturn ==
    LET k == Len(callLog) - 1
    IN  /\ (k >= 0 /\ RateLimitedPrefix(callLog, k) /\ callLog[k + 1].status = 200)
            => /\ k < Retries
               /\ call.st = "returned"
               /\ call.value = Payload(callLog[k + 1].body)
               /\ callSleeps = [j \in 1..k |-> 2000 * j]
        /\ (Len(callLog) = Retries /\ RateLimitedPrefix(callLog, Retries))
            => /\ call.st \in {"sleeping", "thrown"}
               /\ Len(callSleeps) = Retries
               /\ Requests = Retries

\* witness of C2: two 429s and then a 200, on the last attempt
C2_Witness ==
    /\ Len(callLog) = Retries
    /\ RateLimitedPrefix(callLog, Retries - 1)
    /\ callLog[Retries].status = 200
    /\ call.st = "returned"

\* C9 as stated: a call whose attempts all ended in a non-429 failure fails
\* with an error that identifies the endpoint and the attempt count.
C9_ErrorNamesEndpoint ==
    (call.st = "thrown" /\ AllFailures(callLog))
        => /\ call.value.type = "FailedAfter"
           /\ call.value.endpoint = call.endpoint
           /\ call.value.attempts = Retries

\* C9 amended: a call whose attempts all end in a non-429 failure makes
\* exactly Retries requests, sleeps attempt * 1000 ms after each failed
\* attempt except the last, and then fails with the error of its last
\* attempt (the HTTP status or the transport error), which names neither the
\* endpoint nor the attempt count.
C9_ExhaustsRetries ==
    (call.st # "none" /\ AllFailures(callLog))
        => /\ Len(callLog) <= Retries
           /\ Requests <= Retries
           /\ callSleeps = [j \in 1..Min(Len(callLog), Retries - 1) |-> 1000 * j]
           /\ Len(callLog) < Retries => call.st \in {"awaiting", "sleeping"}
           /\ Len(callLog) = Retries
                => /\ call.st = "thrown"
                   /\ Requests = Retries
                   /\ call.value = ErrorOf(callLog[Retries].status)
                   /\ call.value.endpoint # call.endpoint
                   /\ call.value.attempts # Retries

\* witness of C9: the third failed attempt has thrown
C9_Witness ==
    /\ call.st = "thrown"
    /\ AllFailures(callLog)
    /\ Len(callLog) = Retries
    /\ callSleeps = <<1000, 2000>>

\* C21: a fetchApi call sends at most Retries requests, whatever the upstream
\* answers: the attempt counter is the number of requests sent (so a 429
\* counts like any other failure), a call that has received Retries
\* responses sends no further request and is settled once its last sleep has
\* ended, and a call that has received no response yet is on attempt 1,
\* whatever the calls before it went through.
C21_BoundedRequests ==
    call.st # "none"
        => /\ Requests <= Retries
           /\ Len(callLog) <= Retries
           /\ call.st = "awaiting" => (call.attempt = Len(callLog) + 1 /\ call.attempt <= Retries)
           /\ call.st = "sleeping" => call.attempt = Len(callLog)
           /\ call.st = "returned"
                 => (call.attempt = Len(callLog) /\ IsOk(callLog[Len(callLog)].status))
           /\ call.st = "thrown" => Len(callLog) = Retries
           /\ Len(callLog) = Retries
                 => \/ Settled(call)
                    \/ /\ call.st = "sleeping"
                       /\ callLog[Retries].status = 429
                       /\ OnWake(call).st = "thrown"
           /\ callLog = <<>> => (call.st = "awaiting" /\ call.attempt = 1)
           /\ \A j \in 1..(Len(callLog) - 1) : ~IsOk(callLog[j].status)

\* witness of C21: the second call of the client has thrown after exactly
\* Retries requests, answered with a 429, a failure and a 429
C21_Witness ==
    /\ callsMade = 2
    /\ call.st = "thrown"
    /\ Len(callLog) = Retries
    /\ callLog[1].status = 429
    /\ callLog[2].status = 500
    /\ callLog[3].status = 429
    /\ call.value = FailedAfter(call.endpoint, Retries)

----------------------------------------------------------------------------
(* Properties of the ingestion pipeline *)

Range(f) == {f[x] : x \in DOMAIN f}

\* ceil(n / b)
CeilDiv(n, b) == (n + b - 1) \div b

\* start index of the batch a position belongs to
BatchStartOf(pos) == ((pos - 1) \div batchSize) * batchSize

\* the positions that share a batch with pos
BatchMates(pos) == BatchPositions(Run, BatchStartOf(pos))

\* C1 as stated: when the run has returned, every identifier whose own detail
\* call succeeded has its record in the result, also when the detail call of
\* another identifier of its batch failed permanently.
C1_PerItemIsolation ==
    pc = "returned"
        => \A pos \in 1..Len(allPoolIds) :
              detailOutcome[pos] = "returned" => pos \in Range(source)

\* C1 amended: a detail call that fails permanently rejects its whole batch;
\* when the run has returned, an identifier has a record in the result exactly
\* when the detail call of every identifier of its batch succeeded (so the
\* batch mates of a failed identifier have none, while the identifiers of
\* every other batch keep theirs).
C1_BatchIsolation ==
    pc = "returned"
        => \A pos \in 1..Len(allPoolIds) :
              pos \in Range(source)
                 <=> \A q \in BatchMates(pos) : detailOutcome[q] = "returned"

\* witness of C1: the run returned, one detail call of a batch threw, a batch
\* mate's call succeeded and has no record, another batch has its records
C1_Witness ==
    /\ pc = "returned"
    /\ \E pos \in 1..Len(allPoolIds), q \in 1..Len(allPoolIds) :
          /\ q \in BatchMates(pos)
          /\ detailOutcome[pos] = "thrown"
          /\ detailOutcome[q] = "returned"
          /\ q \notin Range(source)
    /\ source # <<>>

\* C3 as stated: when the run has returned with n >= 1 identifiers, the
\* inter-batch delay was started exactly ceil(n/b) - 1 times, whatever the
\* outcome of the batches.
C3_DelayCount ==
    (pc = "returned" /\ Len(allPoolIds) >= 1)
        => delays = CeilDiv(Len(allPoolIds), batchSize) - 1

\* C4: the batches start at 0, b, 2b, ... in this order; the identifiers with
\* a detail call are exactly those of the batches started so far, each with
\* exactly one call, for its own identifier; a returned run started exactly
\* ceil(n/b) batches.
C4_BatchCoverage ==
    LET n == Len(allPoolIds)
    IN  /\ \A k \in 1..Len(batches) : batches[k] = (k - 1) * batchSize
        /\ \A pos \in Positions :
              issued[pos] = IF pos <= Min(Len(batches) * batchSize, n) THEN 1 ELSE 0
        /\ \A pos \in Positions :
              detail[pos] # NoCall
                 => /\ pos <= n
                    /\ detail[pos].endpoint = DetailEndpoint(allPoolIds[pos])
        /\ pc = "returned" => Len(batches) = CeilDiv(n, batchSize)
        /\ pc \in {"details", "metadata", "delay"}
              => /\ Len(batches) >= 1
                 /\ i = batches[Len(batches)]

\* witness of C4: a returned run of three identifiers in batches of two, with
\* a batch that failed
C4_Witness ==
    /\ pc = "returned"
    /\ Len(allPoolIds) = 3
    /\ batchSize = 2
    /\ batches = <<0, 2>>
    /\ Len(allPools) < 3

\* the record processBatch returns for a pool whose detail answer carried its
\* pool_id, when metadata was fetched
EnrichedPool(id) == [pool_id |-> id, active |-> TRUE, metadata |-> MetadataBody]

\* C5: once its batch has ended, a pool whose detail call succeeded with a
\* pool_id and whose metadata call failed permanently has exactly one record
\* in the result, and this record is the record of the success case (pool_id,
\* active = true, metadata) without the metadata.
C5_MetadataFailureKeepsPool ==
    \A pos \in 1..Len(allPoolIds) :
        (metaOutcome[pos] # "none" /\ ~(pc = "metadata" /\ pos \in BatchPositions(Run, i)))
            => /\ Cardinality({j \in 1..Len(source) : source[j] = pos}) = 1
               /\ Len(source) = Len(allPools)
               /\ \A j \in 1..Len(source) :
                     source[j] = pos
                        => allPools[j] =
                              IF metaOutcome[pos] = "thrown"
                              THEN [EnrichedPool(allPoolIds[pos]) EXCEPT !.metadata = NoMetadata]
                              ELSE EnrichedPool(allPoolIds[pos])

\* witness of C5: the run returned a pool with metadata and a pool whose
\* metadata call threw
C5_Witness ==
    /\ pc = "returned"
    /\ \E pos \in 1..Len(allPoolIds) : metaOutcome[pos] = "thrown"
    /\ \E j \in 1..Len(allPools) : allPools[j].metadata = MetadataBody

\* C10 as stated: a run in which the upstream answers only with 429s and
\* successes never aborts.
C10_RateLimitNeverFatal ==
    ~sawFailure => pc # "failed"

\* C10 amended: rate limiting alone is fatal only when one call is answered
\* with Retries 429s: a run in which the upstream answers only with 429s and
\* successes aborts only when a page call of discovery has used all its
\* Retries attempts on 429 responses, and the error is then the one that
\* names the endpoint and the attempt count.
C10_RateLimitFatalAfterRetries ==
    (~sawFailure /\ pc = "failed")
        => /\ pageCall.st = "thrown"
           /\ pageCall.attempt = Retries + 1
           /\ pageCall.value = FailedAfter(PageEndpoint(page), Retries)

\* witness of C10: a run aborted although the upstream gave no failure other
\* than 429
C10_Witness ==
    /\ pc = "failed"
    /\ ~sawFailure

RECURSIVE Concat(_)
Concat(seqs) == IF seqs = <<>> THEN <<>> ELSE Head(seqs) \o Concat(Tail(seqs))

\* discovery is over: the run is in enrichment, has returned or has failed
DiscoveryEnded == pc \notin {"idle", "discovery"}

\* C12: discovery calls pages 1, 2, 3, ... in this order, page k + 1 only
\* after page k has returned a non-empty list, and no page after an empty
\* one; it has ended exactly when a page returned an empty list or a page
\* call threw; the identifiers handed to enrichment are the concatenation in
\* page order of the pages returned; no detail call exists before discovery
\* has ended with an empty page.
C12_Discovery ==
    LET emptyLast == pageLog # <<>> /\ pageLog[Len(pageLog)] = <<>>
    IN  /\ pageRequests = [k \in 1..Len(pageRequests) |-> k]
        /\ Len(pageLog) \in {Len(pageRequests) - 1, Len(pageRequests)}
        /\ pc = "discovery"
              => /\ Len(pageLog) = Len(pageRequests) - 1
                 /\ pageCall.endpoint = PageEndpoint(Len(pageRequests))
        /\ \A k \in 1..Len(pageLog) : pageLog[k] = <<>> => k = Len(pageRequests)
        /\ DiscoveryEnded <=> (emptyLast \/ pageCall.st = "thrown")
        /\ pc \notin {"idle", "failed"} => allPoolIds = Concat(pageLog)
        /\ (DiscoveryEnded /\ pc # "failed") => emptyLast
        /\ ~emptyLast
              => /\ batches = <<>>
                 /\ \A pos \in Positions : issued[pos] = 0 /\ detail[pos] = NoCall

\* witness of C12: discovery ended at the empty third page after two pages of
\* two and one identifiers, and the detail calls have been started
C12_Witness ==
    /\ pageRequests = <<1, 2, 3>>
    /\ Len(pageLog) = 3
    /\ Len(pageLog[1]) = 2
    /\ Len(pageLog[2]) = 1
    /\ pageLog[3] = <<>>
    /\ allPoolIds = pageLog[1] \o pageLog[2]
    /\ \E pos \in Positions : issued[pos] = 1

\* the k-th batch started did not throw: all its detail calls returned
BatchSucceeded(k) ==
    \A q \in BatchPositions(Run, batches[k]) : detailOutcome[q] = "returned"

\* the positions of the first k batches that did not throw, in batch order
RECURSIVE SucceededPositions(_)
SucceededPositions(k) ==
    IF k = 0 THEN <<>>
    ELSE SucceededPositions(k - 1)
            \o (IF BatchSucceeded(k)
                THEN [j \in 1..Cardinality(BatchPositions(Run, batches[k])) |-> batches[k] + j]
                ELSE <<>>)

\* C11: a run aborts only during discovery (once a batch has been started it
\* never fails); when it has returned, every one of the ceil(n/b) batches was
\* started exactly once (a batch that threw was not retried and the batches
\* after it were processed), and the result holds exactly the records of the
\* batches that did not throw, one per identifier, in batch order.
C11_BatchLevelIsolation ==
    LET n == Len(allPoolIds)
    IN  /\ pc = "failed" => (batches = <<>> /\ pageCall.st = "thrown")
        /\ pc = "returned"
              => /\ Len(batches) = CeilDiv(n, batchSize)
                 /\ \A pos \in 1..n : issued[pos] = 1
                 /\ source = SucceededPositions(Len(batches))
                 /\ Len(allPools) = Len(source)
                 /\ \A j \in 1..Len(source) :
                       allPools[j].pool_id \in {allPoolIds[source[j]], NoPoolId}

\* witness of C11: the run returned after a batch that threw and a later batch
\* that did not; the result is shorter than the list of identifiers
C11_Witness ==
    /\ pc = "returned"
    /\ \E k \in 1..Len(batches) : \E m \in 1..Len(batches) :
          k < m /\ ~BatchSucceeded(k) /\ BatchSucceeded(m)
    /\ allPools # <<>>
    /\ Len(allPools) < Len(allPoolIds)

\* an upstream request for the identifier at pos is awaiting its response
RequestInFlight(pos) == detail[pos].st = "awaiting" \/ meta[pos].st = "awaiting"

\* C15 as stated: two identifiers that have requests awaiting a response at
\* the same time belong to the same batch.
C15_BatchesNeverOverlap ==
    \A p \in Positions : \A q \in Positions :
        (RequestInFlight(p) /\ RequestInFlight(q)) => BatchStartOf(p) = BatchStartOf(q)

\* C19 as stated: every record collected by getAllStakePools has
\* active = true, whatever its detail answer carried.
C19_AllRecordsActive ==
    \A j \in 1..Len(allPools) : allPools[j].active = TRUE

\* C20 as stated: when the run has returned, onProgress has been called once
\* with (0, n) and once after each of the ceil(n/b) batches, failed batches
\* included; the counts never decrease and the total is n in every call.
C20_ProgressPerBatch ==
    LET n == Len(allPoolIds)
    IN  pc = "returned"
           => /\ Len(progress) = 1 + CeilDiv(n, batchSize)
              /\ progress[1] = <<0, n>>
              /\ \A k \in 1..Len(progress) : progress[k][2] = n
              /\ \A k \in 1..(Len(progress) - 1) : progress[k][1] <= progress[k + 1][1]

----------------------------------------------------------------------------
(* Properties of the block poller *)

\* C6: when a block arrives with an OK response and carries the height of the
\* block received just before it, this step changes neither the current slot
\* leader nor the block history, whatever its other fields are.
C6_SameHeightNoUpdate ==
    [][(nObs' = nObs + 1 /\ nObs >= 1 /\ lastObs'.height = lastObs.height)
          => (currentSlotLeader' = currentSlotLeader /\ blockHistory' = blockHistory)]_vars

\* witness of C6: the second of two blocks of the same height differed in
\* slot leader and time, and the first is still the one displayed
C6_Witness ==
    /\ nObs >= 2
    /\ phase = "mounted"
    /\ lastObs.height = lastBlockRef
    /\ blockHistory # <<>>
    /\ blockHistory[1].height = lastObs.height
    /\ blockHistory[1].slot_leader # lastObs.slot_leader
    /\ blockHistory[1].time # lastObs.time
    /\ currentSlotLeader # lastObs.slot_leader

\* C7: the block history holds at most MAX_HISTORY entries and no two of them
\* have the same height.
C7_HistoryBounded ==
    /\ Len(blockHistory) <= MAX_HISTORY
    /\ \A a, b \in 1..Len(blockHistory) :
          a # b => blockHistory[a].height # blockHistory[b].height

\* witness of C7: a full history after more blocks than it can hold, the
\* newest of them at a height lower than the one before
C7_Witness ==
    /\ Len(blockHistory) = MAX_HISTORY
    /\ nObs > MAX_HISTORY
    /\ blockHistory[1].height < blockHistory[2].height

\* the entries of a log with pairwise distinct heights, the most recently
\* arrived first; of two entries of one height the later one is kept
RECURSIVE RecentDistinct(_)
RecentDistinct(log) ==
    IF log = <<>> THEN <<>>
    ELSE LET last == log[Len(log)]
         IN  <<last>> \o SelectSeq(RecentDistinct(SubSeq(log, 1, Len(log) - 1)),
                                   LAMBDA e : e.height # last.height)

Take(s, n) == SubSeq(s, 1, Min(n, Len(s)))

\* the pools of a collection whose pool_id is the leader
LeaderPools(ps, leader) == {k \in 1..Len(ps) : ps[k].pool_id = leader}

\* the name C18 states: the metadata name of the pool, "Unknown Pool" when
\* no pool of the collection has the leader's pool_id
StatedName(ps, leader) ==
    IF LeaderPools(ps, leader) = {} THEN "Unknown Pool"
    ELSE ps[CHOOSE k \in LeaderPools(ps, leader) : \A m \in LeaderPools(ps, leader) : k <= m]
            .metadata.name

\* the name of the amended C18: "Unknown Pool" also when the pool has no
\* metadata or an empty name
AmendedName(ps, leader) ==
    IF LeaderPools(ps, leader) = {} THEN "Unknown Pool"
    ELSE LET pool == ps[CHOOSE k \in LeaderPools(ps, leader) :
                           \A m \in LeaderPools(ps, leader) : k <= m]
         IN  IF pool.metadata.present /\ pool.metadata.name # ""
             THEN pool.metadata.name ELSE "Unknown Pool"

\* an OK response to a request of the closure over ps brings a block whose
\* height differs from the height of the block before it (or the first
\* block), while the chart is mounted
NovelObservation(ps) ==
    /\ nObs' = nObs + 1
    /\ inflight'[ps] < inflight[ps]
    /\ lastObs'.height # lastObs.height
    /\ phase = "mounted"

C17_LateResponseDiscarded ==
    [][\A ps \in PoolCollections :
          (/\ nObs' = nObs + 1
           /\ inflight'[ps] < inflight[ps]
           /\ (phase = "unmounted" \/ ps # pools))
             => /\ lastBlockRef' = lastBlockRef
                /\ currentSlotLeader' = currentSlotLeader
                /\ blockHistory' = blockHistory]_vars

\* the three pieces of poller state agree: nothing observed, or the newest
\* history entry carries the last height and the current leader
PollerConsistent ==
    \/ /\ nObs = 0
       /\ lastBlockRef = Null
       /\ currentSlotLeader = Null
       /\ blockHistory = <<>>
    \/ /\ nObs > 0
       /\ blockHistory # <<>>
       /\ lastBlockRef = blockHistory[1].height
       /\ currentSlotLeader = blockHistory[1].slot_leader

\* C22: after every step that leaves the chart mounted the three pieces of
\* poller state agree, and a step in which a fetchLatestBlock call ends with
\* a failed request or a response that is not OK changes none of them.
C22_PollerConsistency ==
    [][/\ phase' = "mounted" => PollerConsistent'
       /\ (\E ps \in PoolCollections : inflight'[ps] < inflight[ps] /\ nObs' = nObs)
             => /\ lastBlockRef' = lastBlockRef
                /\ currentSlotLeader' = currentSlotLeader
                /\ blockHistory' = blockHistory]_vars

\* witness of C22: the chart is mounted, blocks of two heights have been
\* observed, the newest entry carries the last height and the leader, and
\* the last call answered was a failed one
C22_Witness ==
    /\ phase = "mounted"
    /\ lastPoll = "failed"
    /\ nObs >= 2
    /\ Len(blockHistory) >= 2
    /\ lastBlockRef = blockHistory[1].height
    /\ currentSlotLeader = blockHistory[1].slot_leader
    /\ lastObs.height = lastBlockRef

----------------------------------------------------------------------------
(* Properties of the drawing effect *)

\* C14: after the drawing effect has run for a non-empty collection, a pool
\* has a leaf exactly when it has a live_stake (a non-empty string) and
\* metadata, the leaves keep the order of the pools, and the value of a leaf
\* times 1,000,000 is the amount its live_stake denotes; a pool with
\* live_stake "5000000" and metadata { name: "Test" } has a leaf of value 5.
C14_LeafMembership ==
    (rendered /\ pools # <<>>)
        => /\ \A k \in 1..Len(pools) :
                 (\E j \in 1..Len(poolData) : poolData[j].id = pools[k].pool_id)
                    <=> /\ pools[k].live_stake.present
                        /\ pools[k].live_stake.text # <<>>
                        /\ pools[k].metadata.present
           /\ \A j \in 1..Len(poolData) : \A m \in 1..Len(poolData) :
                 j < m => poolData[j].id < poolData[m].id
           /\ \A j \in 1..Len(poolData) : \E k \in 1..Len(pools) :
                 /\ poolData[j].id = pools[k].pool_id
                 /\ ~poolData[j].value.nan
                 /\ poolData[j].value.millionths \in 0..999999
                 /\ ToDigits(poolData[j].value.whole * 1000000 + poolData[j].value.millionths)
                       = pools[k].live_stake.text
                 /\ (pools[k].live_stake.text = <<"5", "0", "0", "0", "0", "0", "0">>
                     /\ pools[k].metadata.name = "Test")
                       => poolData[j] = [id |-> pools[k].pool_id,
                                         value |-> [nan |-> FALSE, whole |-> 5, millionths |-> 0],
                                         name |-> "Test", blocks |-> pools[k].blocks_minted]

\* witness of C14: of two pools with live_stake "5000000", the one with
\* metadata { name: "Test" } is the only leaf, with value 5
C14_Witness ==
    /\ rendered
    /\ Len(pools) = 2
    /\ pools[1].live_stake = Stake(<<"5", "0", "0", "0", "0", "0", "0">>)
    /\ pools[1].metadata = [present |-> TRUE, name |-> "Test"]
    /\ pools[2].live_stake = pools[1].live_stake
    /\ pools[2].metadata = NoMetadata
    /\ Len(poolData) = 1
    /\ poolData[1].id = pools[1].pool_id
    /\ poolData[1].value.whole = 5
    /\ poolData[1].value.millionths = 0

----------------------------------------------------------------------------
(* Properties of the cache store *)

LastGoodRun ==
    IF \E k \in 1..Len(jobLog) : jobLog[k].exit = 0
    THEN CHOOSE k \in 1..Len(jobLog) :
            /\ jobLog[k].exit = 0
            /\ \A m \in (k + 1)..Len(jobLog) : jobLog[m].exit # 0
    ELSE 0

\* the snapshot and the timestamp as the finished runs left them
StoredSnapshot ==
    IF LastGoodRun = 0 THEN Absent ELSE File(Stringify(jobLog[LastGoodRun].result))

StoredTimestamp ==
    IF LastGoodRun = 0 THEN Absent ELSE File(Timestamp(LastGoodRun))

====
